---------------------------- MODULE Spec2Model ----------------------------
(***************************************************************************)
(* Intent resolution of the function-execution API: the function registry  *)
(* (app/services/function_registry.py), the RAG service                    *)
(* (app/services/rag_service.py) and the two routes (app/api/routes.py).   *)
(*                                                                         *)
(* Text.  A Python str is written here as a TLA+ string and stands for the *)
(* sequence of its characters, Chars(t).  lower(), ==, `in` and replace()  *)
(* are computed on the characters, so "Open calculator" and                *)
(* "open calculator" are different texts with equal lower().               *)
(*                                                                         *)
(* Numbers.  Distances and relevance scores are floats in the source; they *)
(* are kept here in hundredths (1.0 is ONE = 100, +0.3 is 30).             *)
(*                                                                         *)
(* The embedding index.  chromadb and the sentence-transformer are         *)
(* external: collection.query returns min(n_results, count) distinct ids   *)
(* of the collection, closest first, with non-decreasing distances.  Which *)
(* ids and which distances is left open: every ranking of Rankings and     *)
(* every distance profile is a possible answer to every query.             *)
(*                                                                         *)
(* Specifications.  Spec: the two routes.  SpecHistory: direct calls of    *)
(* add_to_history and get_relevant_history.  SpecResolve: direct calls of  *)
(* get_best_match over the index of the built-in functions, answered with  *)
(* any order of the ids of SelectPool.  SpecSelect: the same over an index *)
(* that may also hold a function registered before the service was built.  *)
(* SpecCalls: direct calls of every operation of the two services and the   *)
(* register route, the calls that write first.                              *)
(***************************************************************************)
EXTENDS Integers, Sequences, FiniteSets, TLC

VARIABLES
    functions,        \* FunctionRegistry.functions: the registered names
    metadata,         \* FunctionRegistry.metadata: name -> FunctionMetadata
    collection,       \* the chroma collection "function_metadata": the indexed ids
    session_history,  \* RAGService.session_history
    appended,         \* every record add_to_history was called with, in call order
    clock,            \* datetime.now(): advances with every request and call
    op,               \* the operation that ran last
    query,            \* its prompt
    context,          \* the text it handed to collection.query (characters)
    hits,             \* what collection.query answered
    results,          \* what retrieve_functions returned: name and score of each
    match,            \* what get_best_match returned: its name and score, or None
    invoked,          \* whether a registered callable was run
    error,            \* the exception it raised inside the route's try, "" for none
    response,         \* the HTTP response of the route
    returned          \* what a direct call of execute or extract_parameters returned

vars == <<functions, metadata, collection, session_history, appended, clock,
          op, query, context, hits, results, match, invoked, error, response,
          returned>>

----------------------------------------------------------------------------
(* Bounds of the model *)

\* /execute requests in one behaviour of Spec
MaxRequests == 1

\* add_to_history calls in one behaviour of SpecHistory
MaxAppends == 11

\* rotations of the insertion order the index may answer with
MaxRotation == 10

\* add_to_history calls in one behaviour of SpecCalls
MaxCalls == 2

\* distances (hundredths) of the closest hit, and the gap between neighbours
BaseDistances == {10}
DistanceSteps == {0, 20}

----------------------------------------------------------------------------
(* Program constants *)

ONE == 100                \* relevance_score = 1 - distance
EXACT_SCORE == 100        \* relevance_score = 1.0
PARTIAL_BOOST == 30       \* relevance_score += 0.3
NAME_BOOST == 20          \* relevance_score += 0.2
DESCRIPTION_BOOST == 10   \* relevance_score += 0.1
CATEGORY_BOOST == 50      \* relevance_score += 0.5
N_RESULTS == 5            \* retrieve_functions(query, n_results=5)
HISTORY_LIMIT == 10       \* if len(self.session_history) > 10
CONTEXT_WINDOW == 3       \* self.session_history[-3:]

None == [name |-> "None"]

----------------------------------------------------------------------------
(* Text *)

CharsTable ==
    ("get_system_info" :> <<"g", "e", "t", "_", "s", "y", "s", "t", "e", "m", "_", "i", "n", "f", "o">>)
  @@ ("Get comprehensive system information including CPU, RAM, disk, and network details" :> <<"G", "e", "t", " ", "c", "o", "m", "p", "r", "e", "h", "e", "n", "s", "i", "v", "e", " ", "s", "y", "s", "t", "e", "m", " ", "i", "n", "f", "o", "r", "m", "a", "t", "i", "o", "n", " ", "i", "n", "c", "l", "u", "d", "i", "n", "g", " ", "C", "P", "U", ",", " ", "R", "A", "M", ",", " ", "d", "i", "s", "k", ",", " ", "a", "n", "d", " ", "n", "e", "t", "w", "o", "r", "k", " ", "d", "e", "t", "a", "i", "l", "s">>)
  @@ ("Show system information" :> <<"S", "h", "o", "w", " ", "s", "y", "s", "t", "e", "m", " ", "i", "n", "f", "o", "r", "m", "a", "t", "i", "o", "n">>)
  @@ ("Get system details" :> <<"G", "e", "t", " ", "s", "y", "s", "t", "e", "m", " ", "d", "e", "t", "a", "i", "l", "s">>)
  @@ ("Display system status" :> <<"D", "i", "s", "p", "l", "a", "y", " ", "s", "y", "s", "t", "e", "m", " ", "s", "t", "a", "t", "u", "s">>)
  @@ ("Show system stats" :> <<"S", "h", "o", "w", " ", "s", "y", "s", "t", "e", "m", " ", "s", "t", "a", "t", "s">>)
  @@ ("Get system overview" :> <<"G", "e", "t", " ", "s", "y", "s", "t", "e", "m", " ", "o", "v", "e", "r", "v", "i", "e", "w">>)
  @@ ("Show system info" :> <<"S", "h", "o", "w", " ", "s", "y", "s", "t", "e", "m", " ", "i", "n", "f", "o">>)
  @@ ("Get system information" :> <<"G", "e", "t", " ", "s", "y", "s", "t", "e", "m", " ", "i", "n", "f", "o", "r", "m", "a", "t", "i", "o", "n">>)
  @@ ("Display system information" :> <<"D", "i", "s", "p", "l", "a", "y", " ", "s", "y", "s", "t", "e", "m", " ", "i", "n", "f", "o", "r", "m", "a", "t", "i", "o", "n">>)
  @@ ("Show system details" :> <<"S", "h", "o", "w", " ", "s", "y", "s", "t", "e", "m", " ", "d", "e", "t", "a", "i", "l", "s">>)
  @@ ("Get system status" :> <<"G", "e", "t", " ", "s", "y", "s", "t", "e", "m", " ", "s", "t", "a", "t", "u", "s">>)
  @@ ("Show system" :> <<"S", "h", "o", "w", " ", "s", "y", "s", "t", "e", "m">>)
  @@ ("Get system" :> <<"G", "e", "t", " ", "s", "y", "s", "t", "e", "m">>)
  @@ ("Display system" :> <<"D", "i", "s", "p", "l", "a", "y", " ", "s", "y", "s", "t", "e", "m">>)
  @@ ("Show system overview" :> <<"S", "h", "o", "w", " ", "s", "y", "s", "t", "e", "m", " ", "o", "v", "e", "r", "v", "i", "e", "w">>)
  @@ ("get_cpu_usage" :> <<"g", "e", "t", "_", "c", "p", "u", "_", "u", "s", "a", "g", "e">>)
  @@ ("Get current CPU usage and details" :> <<"G", "e", "t", " ", "c", "u", "r", "r", "e", "n", "t", " ", "C", "P", "U", " ", "u", "s", "a", "g", "e", " ", "a", "n", "d", " ", "d", "e", "t", "a", "i", "l", "s">>)
  @@ ("Show CPU usage" :> <<"S", "h", "o", "w", " ", "C", "P", "U", " ", "u", "s", "a", "g", "e">>)
  @@ ("Get CPU stats" :> <<"G", "e", "t", " ", "C", "P", "U", " ", "s", "t", "a", "t", "s">>)
  @@ ("Display CPU information" :> <<"D", "i", "s", "p", "l", "a", "y", " ", "C", "P", "U", " ", "i", "n", "f", "o", "r", "m", "a", "t", "i", "o", "n">>)
  @@ ("Show CPU details" :> <<"S", "h", "o", "w", " ", "C", "P", "U", " ", "d", "e", "t", "a", "i", "l", "s">>)
  @@ ("Get CPU performance" :> <<"G", "e", "t", " ", "C", "P", "U", " ", "p", "e", "r", "f", "o", "r", "m", "a", "n", "c", "e">>)
  @@ ("Show CPU utilization" :> <<"S", "h", "o", "w", " ", "C", "P", "U", " ", "u", "t", "i", "l", "i", "z", "a", "t", "i", "o", "n">>)
  @@ ("Get CPU load" :> <<"G", "e", "t", " ", "C", "P", "U", " ", "l", "o", "a", "d">>)
  @@ ("Display CPU usage" :> <<"D", "i", "s", "p", "l", "a", "y", " ", "C", "P", "U", " ", "u", "s", "a", "g", "e">>)
  @@ ("Show CPU performance" :> <<"S", "h", "o", "w", " ", "C", "P", "U", " ", "p", "e", "r", "f", "o", "r", "m", "a", "n", "c", "e">>)
  @@ ("Get CPU information" :> <<"G", "e", "t", " ", "C", "P", "U", " ", "i", "n", "f", "o", "r", "m", "a", "t", "i", "o", "n">>)
  @@ ("get_ram_usage" :> <<"g", "e", "t", "_", "r", "a", "m", "_", "u", "s", "a", "g", "e">>)
  @@ ("Get current RAM usage and details" :> <<"G", "e", "t", " ", "c", "u", "r", "r", "e", "n", "t", " ", "R", "A", "M", " ", "u", "s", "a", "g", "e", " ", "a", "n", "d", " ", "d", "e", "t", "a", "i", "l", "s">>)
  @@ ("Show RAM usage" :> <<"S", "h", "o", "w", " ", "R", "A", "M", " ", "u", "s", "a", "g", "e">>)
  @@ ("Get RAM stats" :> <<"G", "e", "t", " ", "R", "A", "M", " ", "s", "t", "a", "t", "s">>)
  @@ ("Display RAM information" :> <<"D", "i", "s", "p", "l", "a", "y", " ", "R", "A", "M", " ", "i", "n", "f", "o", "r", "m", "a", "t", "i", "o", "n">>)
  @@ ("Show RAM details" :> <<"S", "h", "o", "w", " ", "R", "A", "M", " ", "d", "e", "t", "a", "i", "l", "s">>)
  @@ ("Get memory usage" :> <<"G", "e", "t", " ", "m", "e", "m", "o", "r", "y", " ", "u", "s", "a", "g", "e">>)
  @@ ("Show memory usage" :> <<"S", "h", "o", "w", " ", "m", "e", "m", "o", "r", "y", " ", "u", "s", "a", "g", "e">>)
  @@ ("Get RAM utilization" :> <<"G", "e", "t", " ", "R", "A", "M", " ", "u", "t", "i", "l", "i", "z", "a", "t", "i", "o", "n">>)
  @@ ("Display memory information" :> <<"D", "i", "s", "p", "l", "a", "y", " ", "m", "e", "m", "o", "r", "y", " ", "i", "n", "f", "o", "r", "m", "a", "t", "i", "o", "n">>)
  @@ ("Show memory stats" :> <<"S", "h", "o", "w", " ", "m", "e", "m", "o", "r", "y", " ", "s", "t", "a", "t", "s">>)
  @@ ("Get RAM performance" :> <<"G", "e", "t", " ", "R", "A", "M", " ", "p", "e", "r", "f", "o", "r", "m", "a", "n", "c", "e">>)
  @@ ("get_disk_usage" :> <<"g", "e", "t", "_", "d", "i", "s", "k", "_", "u", "s", "a", "g", "e">>)
  @@ ("Get current disk usage and details" :> <<"G", "e", "t", " ", "c", "u", "r", "r", "e", "n", "t", " ", "d", "i", "s", "k", " ", "u", "s", "a", "g", "e", " ", "a", "n", "d", " ", "d", "e", "t", "a", "i", "l", "s">>)
  @@ ("Show disk usage" :> <<"S", "h", "o", "w", " ", "d", "i", "s", "k", " ", "u", "s", "a", "g", "e">>)
  @@ ("Get disk stats" :> <<"G", "e", "t", " ", "d", "i", "s", "k", " ", "s", "t", "a", "t", "s">>)
  @@ ("Display disk information" :> <<"D", "i", "s", "p", "l", "a", "y", " ", "d", "i", "s", "k", " ", "i", "n", "f", "o", "r", "m", "a", "t", "i", "o", "n">>)
  @@ ("Show disk details" :> <<"S", "h", "o", "w", " ", "d", "i", "s", "k", " ", "d", "e", "t", "a", "i", "l", "s">>)
  @@ ("Get storage usage" :> <<"G", "e", "t", " ", "s", "t", "o", "r", "a", "g", "e", " ", "u", "s", "a", "g", "e">>)
  @@ ("Show storage usage" :> <<"S", "h", "o", "w", " ", "s", "t", "o", "r", "a", "g", "e", " ", "u", "s", "a", "g", "e">>)
  @@ ("Get disk utilization" :> <<"G", "e", "t", " ", "d", "i", "s", "k", " ", "u", "t", "i", "l", "i", "z", "a", "t", "i", "o", "n">>)
  @@ ("Display storage information" :> <<"D", "i", "s", "p", "l", "a", "y", " ", "s", "t", "o", "r", "a", "g", "e", " ", "i", "n", "f", "o", "r", "m", "a", "t", "i", "o", "n">>)
  @@ ("Show storage stats" :> <<"S", "h", "o", "w", " ", "s", "t", "o", "r", "a", "g", "e", " ", "s", "t", "a", "t", "s">>)
  @@ ("Get disk performance" :> <<"G", "e", "t", " ", "d", "i", "s", "k", " ", "p", "e", "r", "f", "o", "r", "m", "a", "n", "c", "e">>)
  @@ ("get_network_info" :> <<"g", "e", "t", "_", "n", "e", "t", "w", "o", "r", "k", "_", "i", "n", "f", "o">>)
  @@ ("Get current network interface information" :> <<"G", "e", "t", " ", "c", "u", "r", "r", "e", "n", "t", " ", "n", "e", "t", "w", "o", "r", "k", " ", "i", "n", "t", "e", "r", "f", "a", "c", "e", " ", "i", "n", "f", "o", "r", "m", "a", "t", "i", "o", "n">>)
  @@ ("Show network info" :> <<"S", "h", "o", "w", " ", "n", "e", "t", "w", "o", "r", "k", " ", "i", "n", "f", "o">>)
  @@ ("Get network stats" :> <<"G", "e", "t", " ", "n", "e", "t", "w", "o", "r", "k", " ", "s", "t", "a", "t", "s">>)
  @@ ("Display network information" :> <<"D", "i", "s", "p", "l", "a", "y", " ", "n", "e", "t", "w", "o", "r", "k", " ", "i", "n", "f", "o", "r", "m", "a", "t", "i", "o", "n">>)
  @@ ("Show network details" :> <<"S", "h", "o", "w", " ", "n", "e", "t", "w", "o", "r", "k", " ", "d", "e", "t", "a", "i", "l", "s">>)
  @@ ("Get network status" :> <<"G", "e", "t", " ", "n", "e", "t", "w", "o", "r", "k", " ", "s", "t", "a", "t", "u", "s">>)
  @@ ("Show network status" :> <<"S", "h", "o", "w", " ", "n", "e", "t", "w", "o", "r", "k", " ", "s", "t", "a", "t", "u", "s">>)
  @@ ("Get network utilization" :> <<"G", "e", "t", " ", "n", "e", "t", "w", "o", "r", "k", " ", "u", "t", "i", "l", "i", "z", "a", "t", "i", "o", "n">>)
  @@ ("Display network details" :> <<"D", "i", "s", "p", "l", "a", "y", " ", "n", "e", "t", "w", "o", "r", "k", " ", "d", "e", "t", "a", "i", "l", "s">>)
  @@ ("Show network performance" :> <<"S", "h", "o", "w", " ", "n", "e", "t", "w", "o", "r", "k", " ", "p", "e", "r", "f", "o", "r", "m", "a", "n", "c", "e">>)
  @@ ("Get network interface info" :> <<"G", "e", "t", " ", "n", "e", "t", "w", "o", "r", "k", " ", "i", "n", "t", "e", "r", "f", "a", "c", "e", " ", "i", "n", "f", "o">>)
  @@ ("open_calculator" :> <<"o", "p", "e", "n", "_", "c", "a", "l", "c", "u", "l", "a", "t", "o", "r">>)
  @@ ("Open the system calculator application" :> <<"O", "p", "e", "n", " ", "t", "h", "e", " ", "s", "y", "s", "t", "e", "m", " ", "c", "a", "l", "c", "u", "l", "a", "t", "o", "r", " ", "a", "p", "p", "l", "i", "c", "a", "t", "i", "o", "n">>)
  @@ ("Open calculator" :> <<"O", "p", "e", "n", " ", "c", "a", "l", "c", "u", "l", "a", "t", "o", "r">>)
  @@ ("Launch calculator" :> <<"L", "a", "u", "n", "c", "h", " ", "c", "a", "l", "c", "u", "l", "a", "t", "o", "r">>)
  @@ ("Start calculator" :> <<"S", "t", "a", "r", "t", " ", "c", "a", "l", "c", "u", "l", "a", "t", "o", "r">>)
  @@ ("Run calculator" :> <<"R", "u", "n", " ", "c", "a", "l", "c", "u", "l", "a", "t", "o", "r">>)
  @@ ("Open calc" :> <<"O", "p", "e", "n", " ", "c", "a", "l", "c">>)
  @@ ("open_notepad" :> <<"o", "p", "e", "n", "_", "n", "o", "t", "e", "p", "a", "d">>)
  @@ ("Open the system notepad application" :> <<"O", "p", "e", "n", " ", "t", "h", "e", " ", "s", "y", "s", "t", "e", "m", " ", "n", "o", "t", "e", "p", "a", "d", " ", "a", "p", "p", "l", "i", "c", "a", "t", "i", "o", "n">>)
  @@ ("Open notepad" :> <<"O", "p", "e", "n", " ", "n", "o", "t", "e", "p", "a", "d">>)
  @@ ("Launch notepad" :> <<"L", "a", "u", "n", "c", "h", " ", "n", "o", "t", "e", "p", "a", "d">>)
  @@ ("Start notepad" :> <<"S", "t", "a", "r", "t", " ", "n", "o", "t", "e", "p", "a", "d">>)
  @@ ("Run notepad" :> <<"R", "u", "n", " ", "n", "o", "t", "e", "p", "a", "d">>)
  @@ ("Open text editor" :> <<"O", "p", "e", "n", " ", "t", "e", "x", "t", " ", "e", "d", "i", "t", "o", "r">>)
  @@ ("open_chrome" :> <<"o", "p", "e", "n", "_", "c", "h", "r", "o", "m", "e">>)
  @@ ("Open the Google Chrome web browser" :> <<"O", "p", "e", "n", " ", "t", "h", "e", " ", "G", "o", "o", "g", "l", "e", " ", "C", "h", "r", "o", "m", "e", " ", "w", "e", "b", " ", "b", "r", "o", "w", "s", "e", "r">>)
  @@ ("Open Chrome" :> <<"O", "p", "e", "n", " ", "C", "h", "r", "o", "m", "e">>)
  @@ ("Launch Chrome" :> <<"L", "a", "u", "n", "c", "h", " ", "C", "h", "r", "o", "m", "e">>)
  @@ ("Start Chrome" :> <<"S", "t", "a", "r", "t", " ", "C", "h", "r", "o", "m", "e">>)
  @@ ("Run Chrome" :> <<"R", "u", "n", " ", "C", "h", "r", "o", "m", "e">>)
  @@ ("Open web browser" :> <<"O", "p", "e", "n", " ", "w", "e", "b", " ", "b", "r", "o", "w", "s", "e", "r">>)
  @@ ("get_current_time" :> <<"g", "e", "t", "_", "c", "u", "r", "r", "e", "n", "t", "_", "t", "i", "m", "e">>)
  @@ ("Get the current time with timezone information" :> <<"G", "e", "t", " ", "t", "h", "e", " ", "c", "u", "r", "r", "e", "n", "t", " ", "t", "i", "m", "e", " ", "w", "i", "t", "h", " ", "t", "i", "m", "e", "z", "o", "n", "e", " ", "i", "n", "f", "o", "r", "m", "a", "t", "i", "o", "n">>)
  @@ ("Show current time" :> <<"S", "h", "o", "w", " ", "c", "u", "r", "r", "e", "n", "t", " ", "t", "i", "m", "e">>)
  @@ ("Get time" :> <<"G", "e", "t", " ", "t", "i", "m", "e">>)
  @@ ("Display time" :> <<"D", "i", "s", "p", "l", "a", "y", " ", "t", "i", "m", "e">>)
  @@ ("What time is it" :> <<"W", "h", "a", "t", " ", "t", "i", "m", "e", " ", "i", "s", " ", "i", "t">>)
  @@ ("Current time" :> <<"C", "u", "r", "r", "e", "n", "t", " ", "t", "i", "m", "e">>)
  @@ ("get_current_date" :> <<"g", "e", "t", "_", "c", "u", "r", "r", "e", "n", "t", "_", "d", "a", "t", "e">>)
  @@ ("Get the current date with day of week" :> <<"G", "e", "t", " ", "t", "h", "e", " ", "c", "u", "r", "r", "e", "n", "t", " ", "d", "a", "t", "e", " ", "w", "i", "t", "h", " ", "d", "a", "y", " ", "o", "f", " ", "w", "e", "e", "k">>)
  @@ ("Show current date" :> <<"S", "h", "o", "w", " ", "c", "u", "r", "r", "e", "n", "t", " ", "d", "a", "t", "e">>)
  @@ ("Get date" :> <<"G", "e", "t", " ", "d", "a", "t", "e">>)
  @@ ("Display date" :> <<"D", "i", "s", "p", "l", "a", "y", " ", "d", "a", "t", "e">>)
  @@ ("What date is it" :> <<"W", "h", "a", "t", " ", "d", "a", "t", "e", " ", "i", "s", " ", "i", "t">>)
  @@ ("Current date" :> <<"C", "u", "r", "r", "e", "n", "t", " ", "d", "a", "t", "e">>)
  @@ ("delete_file" :> <<"d", "e", "l", "e", "t", "e", "_", "f", "i", "l", "e">>)
  @@ ("Delete a file from the system" :> <<"D", "e", "l", "e", "t", "e", " ", "a", " ", "f", "i", "l", "e", " ", "f", "r", "o", "m", " ", "t", "h", "e", " ", "s", "y", "s", "t", "e", "m">>)
  @@ ("Delete file" :> <<"D", "e", "l", "e", "t", "e", " ", "f", "i", "l", "e">>)
  @@ ("Remove file" :> <<"R", "e", "m", "o", "v", "e", " ", "f", "i", "l", "e">>)
  @@ ("Erase file" :> <<"E", "r", "a", "s", "e", " ", "f", "i", "l", "e">>)
  @@ ("Delete the file" :> <<"D", "e", "l", "e", "t", "e", " ", "t", "h", "e", " ", "f", "i", "l", "e">>)
  @@ ("Remove the file" :> <<"R", "e", "m", "o", "v", "e", " ", "t", "h", "e", " ", "f", "i", "l", "e">>)
  @@ ("what time is it" :> <<"w", "h", "a", "t", " ", "t", "i", "m", "e", " ", "i", "s", " ", "i", "t">>)
  @@ ("please open calculator now" :> <<"p", "l", "e", "a", "s", "e", " ", "o", "p", "e", "n", " ", "c", "a", "l", "c", "u", "l", "a", "t", "o", "r", " ", "n", "o", "w">>)
  @@ ("asdkjasdkj" :> <<"a", "s", "d", "k", "j", "a", "s", "d", "k", "j">>)
  @@ ("Invalid function that doesn't exist" :> <<"I", "n", "v", "a", "l", "i", "d", " ", "f", "u", "n", "c", "t", "i", "o", "n", " ", "t", "h", "a", "t", " ", "d", "o", "e", "s", "n", "'", "t", " ", "e", "x", "i", "s", "t">>)
  @@ ("Say hello" :> <<"S", "a", "y", " ", "h", "e", "l", "l", "o">>)
  @@ ("delete a file from the system" :> <<"d", "e", "l", "e", "t", "e", " ", "a", " ", "f", "i", "l", "e", " ", "f", "r", "o", "m", " ", "t", "h", "e", " ", "s", "y", "s", "t", "e", "m">>)
  @@ ("Say hello to the user" :> <<"S", "a", "y", " ", "h", "e", "l", "l", "o", " ", "t", "o", " ", "t", "h", "e", " ", "u", "s", "e", "r">>)
  @@ ("say_hello" :> <<"s", "a", "y", "_", "h", "e", "l", "l", "o">>)
  @@ ("show" :> <<"s", "h", "o", "w">>)
  @@ ("get" :> <<"g", "e", "t">>)
  @@ ("check" :> <<"c", "h", "e", "c", "k">>)
  @@ ("display" :> <<"d", "i", "s", "p", "l", "a", "y">>)
  @@ ("monitor" :> <<"m", "o", "n", "i", "t", "o", "r">>)
  @@ ("system" :> <<"s", "y", "s", "t", "e", "m">>)
  @@ ("open" :> <<"o", "p", "e", "n">>)
  @@ ("launch" :> <<"l", "a", "u", "n", "c", "h">>)
  @@ ("start" :> <<"s", "t", "a", "r", "t">>)
  @@ ("run" :> <<"r", "u", "n">>)
  @@ ("execute" :> <<"e", "x", "e", "c", "u", "t", "e">>)
  @@ ("Previous interactions:\n" :> <<"P", "r", "e", "v", "i", "o", "u", "s", " ", "i", "n", "t", "e", "r", "a", "c", "t", "i", "o", "n", "s", ":", "\n">>)
  @@ ("Previous interaction: " :> <<"P", "r", "e", "v", "i", "o", "u", "s", " ", "i", "n", "t", "e", "r", "a", "c", "t", "i", "o", "n", ":", " ">>)
  @@ (" -> " :> <<" ", "-", ">", " ">>)
  @@ ("\n" :> <<"\n">>)
  @@ ("\n\nCurrent prompt: " :> <<"\n", "\n", "C", "u", "r", "r", "e", "n", "t", " ", "p", "r", "o", "m", "p", "t", ":", " ">>)
  @@ ("get time and show cpu usage" :> <<"g", "e", "t", " ", "t", "i", "m", "e", " ", "a", "n", "d", " ", "s", "h", "o", "w", " ", "c", "p", "u", " ", "u", "s", "a", "g", "e">>)
  @@ ("check system and run it" :> <<"c", "h", "e", "c", "k", " ", "s", "y", "s", "t", "e", "m", " ", "a", "n", "d", " ", "r", "u", "n", " ", "i", "t">>)
  @@ ("quick_calc" :> <<"q", "u", "i", "c", "k", "_", "c", "a", "l", "c">>)
  @@ ("Open a quick calculator" :> <<"O", "p", "e", "n", " ", "a", " ", "q", "u", "i", "c", "k", " ", "c", "a", "l", "c", "u", "l", "a", "t", "o", "r">>)
  @@ ("Quick calc" :> <<"Q", "u", "i", "c", "k", " ", "c", "a", "l", "c">>)
  @@ ("Utilities" :> <<"U", "t", "i", "l", "i", "t", "i", "e", "s">>)

BuiltinFunctions ==
    <<
      [name |-> "get_system_info",
       description |-> "Get comprehensive system information including CPU, RAM, disk, and network details",
       category |-> "System Monitoring",
       parameters |-> <<>>,
       examples |-> <<"Show system information",
                       "Get system details",
                       "Display system status",
                       "Show system stats",
                       "Get system overview",
                       "Show system info",
                       "Get system information",
                       "Display system information",
                       "Show system details",
                       "Get system status",
                       "Show system",
                       "Get system",
                       "Display system",
                       "Show system overview",
                       "Get system overview">>],
      [name |-> "get_cpu_usage",
       description |-> "Get current CPU usage and details",
       category |-> "System Monitoring",
       parameters |-> <<>>,
       examples |-> <<"Show CPU usage",
                       "Get CPU stats",
                       "Display CPU information",
                       "Show CPU details",
                       "Get CPU performance",
                       "Show CPU utilization",
                       "Get CPU load",
                       "Display CPU usage",
                       "Show CPU performance",
                       "Get CPU information">>],
      [name |-> "get_ram_usage",
       description |-> "Get current RAM usage and details",
       category |-> "System Monitoring",
       parameters |-> <<>>,
       examples |-> <<"Show RAM usage",
                       "Get RAM stats",
                       "Display RAM information",
                       "Show RAM details",
                       "Get memory usage",
                       "Show memory usage",
                       "Get RAM utilization",
                       "Display memory information",
                       "Show memory stats",
                       "Get RAM performance">>],
      [name |-> "get_disk_usage",
       description |-> "Get current disk usage and details",
       category |-> "System Monitoring",
       parameters |-> <<>>,
       examples |-> <<"Show disk usage",
                       "Get disk stats",
                       "Display disk information",
                       "Show disk details",
                       "Get storage usage",
                       "Show storage usage",
                       "Get disk utilization",
                       "Display storage information",
                       "Show storage stats",
                       "Get disk performance">>],
      [name |-> "get_network_info",
       description |-> "Get current network interface information",
       category |-> "System Monitoring",
       parameters |-> <<>>,
       examples |-> <<"Show network info",
                       "Get network stats",
                       "Display network information",
                       "Show network details",
                       "Get network status",
                       "Show network status",
                       "Get network utilization",
                       "Display network details",
                       "Show network performance",
                       "Get network interface info">>],
      [name |-> "open_calculator",
       description |-> "Open the system calculator application",
       category |-> "Application Control",
       parameters |-> <<>>,
       examples |-> <<"Open calculator",
                       "Launch calculator",
                       "Start calculator",
                       "Run calculator",
                       "Open calc">>],
      [name |-> "open_notepad",
       description |-> "Open the system notepad application",
       category |-> "Application Control",
       parameters |-> <<>>,
       examples |-> <<"Open notepad",
                       "Launch notepad",
                       "Start notepad",
                       "Run notepad",
                       "Open text editor">>],
      [name |-> "open_chrome",
       description |-> "Open the Google Chrome web browser",
       category |-> "Application Control",
       parameters |-> <<>>,
       examples |-> <<"Open Chrome",
                       "Launch Chrome",
                       "Start Chrome",
                       "Run Chrome",
                       "Open web browser">>],
      [name |-> "get_current_time",
       description |-> "Get the current time with timezone information",
       category |-> "Time and Date",
       parameters |-> <<>>,
       examples |-> <<"Show current time",
                       "Get time",
                       "Display time",
                       "What time is it",
                       "Current time">>],
      [name |-> "get_current_date",
       description |-> "Get the current date with day of week",
       category |-> "Time and Date",
       parameters |-> <<>>,
       examples |-> <<"Show current date",
                       "Get date",
                       "Display date",
                       "What date is it",
                       "Current date">>],
      [name |-> "delete_file",
       description |-> "Delete a file from the system",
       category |-> "File Operations",
       parameters |-> <<"file_path">>,
       examples |-> <<"Delete file",
                       "Remove file",
                       "Erase file",
                       "Delete the file",
                       "Remove the file">>]
    >>

Chars(t) == CharsTable[t]

LowerMap ==
    [c \in {"A","B","C","D","E","F","G","H","I","J","K","L","M",
            "N","O","P","Q","R","S","T","U","V","W","X","Y","Z"} |->
        CASE c = "A" -> "a" [] c = "B" -> "b" [] c = "C" -> "c" [] c = "D" -> "d"
          [] c = "E" -> "e" [] c = "F" -> "f" [] c = "G" -> "g" [] c = "H" -> "h"
          [] c = "I" -> "i" [] c = "J" -> "j" [] c = "K" -> "k" [] c = "L" -> "l"
          [] c = "M" -> "m" [] c = "N" -> "n" [] c = "O" -> "o" [] c = "P" -> "p"
          [] c = "Q" -> "q" [] c = "R" -> "r" [] c = "S" -> "s" [] c = "T" -> "t"
          [] c = "U" -> "u" [] c = "V" -> "v" [] c = "W" -> "w" [] c = "X" -> "x"
          [] c = "Y" -> "y" [] c = "Z" -> "z"]

\* str.lower() on characters
lower_chars(cs) ==
    [i \in 1..Len(cs) |-> IF cs[i] \in DOMAIN LowerMap THEN LowerMap[cs[i]] ELSE cs[i]]

\* name.replace('_', ' ')
replace_underscore(cs) ==
    [i \in 1..Len(cs) |-> IF cs[i] = "_" THEN " " ELSE cs[i]]

\* Python's `needle in hay` on characters
is_in(needle, hay) ==
    \E i \in 0..(Len(hay) - Len(needle)) : SubSeq(hay, i + 1, i + Len(needle)) = needle

Texts == DOMAIN CharsTable

\* the prompts of the model's requests
Prompts ==
    {"Open calculator", "what time is it", "please open calculator now",
     "Invalid function that doesn't exist", "Say hello",
     "delete a file from the system"}

\* the prompts of direct get_best_match calls
SelectPrompts ==
    {"Open calculator", "Show current time", "get time and show cpu usage",
     "check system and run it", "Invalid function that doesn't exist",
     "delete a file from the system"}

AllPrompts == Prompts \cup SelectPrompts

\* The tables below hold, for the texts of the model, the values of the
\* operators above; they are computed once from the characters.
LowerTable == [t \in Texts |-> lower_chars(Chars(t))]
SpacedLowerTable == [t \in Texts |-> lower_chars(replace_underscore(Chars(t)))]
LowerInLowerTable == [a \in Texts |-> {b \in AllPrompts : is_in(LowerTable[a], LowerTable[b])}]
SpacedInLowerTable == [a \in Texts |-> {b \in AllPrompts : is_in(SpacedLowerTable[a], LowerTable[b])}]
WordInLowerTable == [a \in Texts |-> {b \in AllPrompts : is_in(Chars(a), LowerTable[b])}]

\* t.lower()
lower(t) == LowerTable[t]

\* a.lower() in b.lower()
lower_in_lower(a, b) == b \in LowerInLowerTable[a]

\* a.replace('_', ' ').lower() in b.lower()
spaced_lower_in_lower(a, b) == b \in SpacedInLowerTable[a]

\* a in b.lower()
word_in_lower(a, b) == b \in WordInLowerTable[a]

SYSTEM_KEYWORDS == <<"show", "get", "check", "display", "monitor", "system">>
APPLICATION_KEYWORDS == <<"open", "launch", "start", "run", "execute">>

\* any(word in query_lower for word in words), query_lower = q.lower()
any_word_in(words, q) ==
    \E i \in DOMAIN words : word_in_lower(words[i], q)

Min(a, b) == IF a < b THEN a ELSE b
Max(a, b) == IF a > b THEN a ELSE b

----------------------------------------------------------------------------
(* The registry *)

\* FunctionMetadata(name, description, category, parameters, examples);
\* parameters holds the parameter names, <<>> for None
FunctionMetadata(name, description, category, parameters, examples) ==
    [name |-> name, description |-> description, category |-> category,
     parameters |-> parameters, examples |-> examples]

\* FunctionRegistry.register_function: both dictionaries get the entry
register_function(fns, md, d) ==
    [functions |-> fns \cup {d.name},
     metadata  |-> [n \in (DOMAIN md) \cup {d.name} |-> IF n = d.name THEN d ELSE md[n]]]

\* FunctionRegistry.__init__ / _register_functions: the built-in functions in order
RECURSIVE register_all(_, _, _)
register_all(fns, md, ds) ==
    IF ds = <<>> THEN [functions |-> fns, metadata |-> md]
    ELSE LET r == register_function(fns, md, Head(ds))
         IN  register_all(r.functions, r.metadata, Tail(ds))

EmptyMetadata == [n \in {} |-> None]

InitialRegistry == register_all({}, EmptyMetadata, BuiltinFunctions)

\* RAGService._initialize_vector_store: one document per registered function, in
\* the order of the metadata dictionary, with the function name as id.  The
\* document text is read by the embedding model alone; the collection is kept
\* here by its ids.
initialize_vector_store(ds) ==
    [i \in 1..Len(ds) |-> [id |-> ds[i].name]]

InitialCollection == initialize_vector_store(BuiltinFunctions)

\* bodies of POST /register-function
CustomFunctions ==
    {FunctionMetadata("say_hello", "Say hello to the user", "Custom", <<>>, <<"Say hello">>),
     FunctionMetadata("open_calculator", "Say hello to the user", "Custom", <<>>, <<"Say hello">>)}

\* a function registered with FunctionRegistry.register_function by the embedding
\* program before the RAGService is built; it shares an example with open_calculator
ExtraFunctions ==
    <<FunctionMetadata("quick_calc", "Open a quick calculator", "Utilities", <<>>,
                       <<"Open calculator", "Quick calc">>)>>

\* the example lists a descriptor of the model can hold
ExampleLists ==
    {BuiltinFunctions[i].examples : i \in DOMAIN BuiltinFunctions}
        \cup {d.examples : d \in CustomFunctions}
        \cup {ExtraFunctions[i].examples : i \in DOMAIN ExtraFunctions}

----------------------------------------------------------------------------
(* Session history *)

\* a variant of add_to_history that drops the oldest record one append late
add_to_history_late_pop(history, record) ==
    LET h == Append(history, record)
    IN  IF Len(h) > HISTORY_LIMIT + 1 THEN Tail(h) ELSE h

\* a variant of add_to_history that pops the newest record: pop() for pop(0)
add_to_history_pop_newest(history, record) ==
    LET h == Append(history, record)
    IN  IF Len(h) > HISTORY_LIMIT THEN SubSeq(h, 1, Len(h) - 1) ELSE h

\* RAGService.add_to_history: append, then drop the oldest record when more than
\* HISTORY_LIMIT are held
add_to_history(history, record) ==
    LET h == Append(history, record)
    IN  IF Len(h) > HISTORY_LIMIT THEN Tail(h) ELSE h

\* a variant of last_interactions that takes history[:CONTEXT_WINDOW]
last_interactions_oldest(history) ==
    SubSeq(history, 1, Min(CONTEXT_WINDOW, Len(history)))

\* history[-CONTEXT_WINDOW:]
last_interactions(history) ==
    SubSeq(history, Max(1, Len(history) - CONTEXT_WINDOW + 1), Len(history))

\* f"Previous interaction: {item['prompt']} -> {item['function']}"
interaction_line(item) ==
    Chars("Previous interaction: ") \o Chars(item.prompt) \o Chars(" -> ")
        \o Chars(item.function)

\* "\n".join(lines)
RECURSIVE join_lines(_)
join_lines(lines) ==
    IF lines = <<>> THEN <<>>
    ELSE IF Len(lines) = 1 THEN lines[1]
    ELSE lines[1] \o Chars("\n") \o join_lines(Tail(lines))

\* RAGService.get_relevant_history: the context text, as characters
get_relevant_history(history, current_prompt) ==
    IF history = <<>> THEN <<>>
    ELSE LET items == last_interactions(history)
             history_text == join_lines([i \in 1..Len(items) |-> interaction_line(items[i])])
         IN  Chars("Previous interactions:\n") \o history_text
                 \o Chars("\n\nCurrent prompt: ") \o Chars(current_prompt)

----------------------------------------------------------------------------
(* The embedding index *)

\* the rankings of the indexed ids the index may answer with: the insertion order
\* rotated by r
Rankings(coll) ==
    LET n == Len(coll)
    IN  { [i \in 1..n |-> coll[((r + i - 1) % n) + 1].id] : r \in 0..MaxRotation }

\* collection.query(query_texts=[context], n_results=n): the possible answers
collection_query(coll, text, n) ==
    IF Len(coll) = 0 THEN { <<>> }
    ELSE LET k == Min(n, Len(coll))
         IN  { [i \in 1..k |-> [id |-> rk[i], distance |-> b + s * (i - 1)]] :
                 rk \in Rankings(coll), b \in BaseDistances, s \in DistanceSteps }

\* the ids the index is let to answer with to a direct get_best_match call
SelectPool ==
    {"get_system_info", "get_cpu_usage", "open_calculator", "open_notepad",
     "get_current_time", "delete_file", "quick_calc"}

\* collection.query for a direct get_best_match call: any n distinct indexed ids
\* of the pool, in any order
select_query(coll, text, n) ==
    LET ids == {coll[i].id : i \in DOMAIN coll} \cap SelectPool
        k == Min(n, Cardinality(ids))
        orders == {rk \in [1..k -> ids] : \A i, j \in 1..k : i # j => rk[i] # rk[j]}
    IN  { [i \in 1..k |-> [id |-> rk[i], distance |-> b + s * (i - 1)]] :
            rk \in orders, b \in BaseDistances, s \in DistanceSteps }

----------------------------------------------------------------------------
(* Relevance scoring: the loop body of RAGService.retrieve_functions *)

\* any(example.lower() == query_lower for example in examples)
any_example_equal(examples, q) ==
    \E i \in DOMAIN examples : lower(examples[i]) = lower(q)

\* any(example.lower() in query_lower for example in examples)
any_example_in(examples, q) ==
    \E i \in DOMAIN examples : lower_in_lower(examples[i], q)

\* The two loops over the examples, tabulated for the example lists and the
\* prompts of the model.
ExactTable == [ex \in ExampleLists |-> {q \in AllPrompts : any_example_equal(ex, q)}]
PartialTable == [ex \in ExampleLists |-> {q \in AllPrompts : any_example_in(ex, q)}]

exact_example_match(examples, q) == q \in ExactTable[examples]

partial_example_match(examples, q) == q \in PartialTable[examples]

\* func_name.replace('_', ' ').lower() in q
name_match(func_name, q) == spaced_lower_in_lower(func_name, q)

\* func_metadata.description.lower() in q
description_match(description, q) == lower_in_lower(description, q)

\* a variant of example_score in which an exact match is a boost on the
\* similarity instead of a fixed score
example_score_exact_boost(func_metadata, distance, q) ==
    LET relevance_score == ONE - distance
    IN  IF exact_example_match(func_metadata.examples, q)
            THEN relevance_score + EXACT_SCORE
        ELSE IF partial_example_match(func_metadata.examples, q)
            THEN relevance_score + PARTIAL_BOOST
        ELSE IF name_match(func_metadata.name, q)
            THEN relevance_score + NAME_BOOST
        ELSE IF description_match(func_metadata.description, q)
            THEN relevance_score + DESCRIPTION_BOOST
        ELSE relevance_score

\* a variant of example_score with independent ifs in place of the elifs
example_score_independent_ifs(func_metadata, distance, q) ==
    LET relevance_score == ONE - distance
    IN  IF exact_example_match(func_metadata.examples, q)
            THEN EXACT_SCORE
        ELSE relevance_score
            + (IF partial_example_match(func_metadata.examples, q)
                 THEN PARTIAL_BOOST ELSE 0)
            + (IF name_match(func_metadata.name, q) THEN NAME_BOOST ELSE 0)
            + (IF description_match(func_metadata.description, q)
                 THEN DESCRIPTION_BOOST ELSE 0)

\* the if / elif chain on examples, name and description
example_score(func_metadata, distance, q) ==
    LET relevance_score == ONE - distance
    IN  IF exact_example_match(func_metadata.examples, q)
            THEN EXACT_SCORE
        ELSE IF partial_example_match(func_metadata.examples, q)
            THEN relevance_score + PARTIAL_BOOST
        ELSE IF name_match(func_metadata.name, q)
            THEN relevance_score + NAME_BOOST
        ELSE IF description_match(func_metadata.description, q)
            THEN relevance_score + DESCRIPTION_BOOST
        ELSE relevance_score

\* the category-specific if / elif that follows it
category_boost(func_metadata, q) ==
    IF func_metadata.category = "System Monitoring"
          /\ any_word_in(SYSTEM_KEYWORDS, q)
        THEN CATEGORY_BOOST
    ELSE IF func_metadata.category = "Application Control"
          /\ any_word_in(APPLICATION_KEYWORDS, q)
        THEN CATEGORY_BOOST
    ELSE 0

relevance(func_metadata, distance, q) ==
    example_score(func_metadata, distance, q)
        + category_boost(func_metadata, q)

\* a variant of sort_by_relevance that leaves the list in retrieval order
sort_by_relevance_no_sort(rs) == rs

\* retrieved_functions.sort(key=relevance_score, reverse=True): stable
RECURSIVE sort_by_relevance(_)
sort_by_relevance(rs) ==
    IF rs = <<>> THEN <<>>
    ELSE LET best == CHOOSE i \in DOMAIN rs :
                        /\ \A j \in DOMAIN rs : rs[j].relevance_score <= rs[i].relevance_score
                        /\ \A j \in 1..(i - 1) : rs[j].relevance_score < rs[i].relevance_score
         IN  <<rs[best]>> \o
             sort_by_relevance(SubSeq(rs, 1, best - 1) \o SubSeq(rs, best + 1, Len(rs)))

\* RAGService.retrieve_functions, given the answer of the index
retrieve_functions(md, q, answer) ==
    LET retrieved == [i \in 1..Len(answer) |->
                        LET func_metadata == md[answer[i].id]
                        IN  [name |-> answer[i].id,
                             relevance_score |->
                                 relevance(func_metadata, answer[i].distance, q),
                             category |-> func_metadata.category,
                             examples |-> func_metadata.examples]]
    IN  sort_by_relevance(retrieved)

\* the first result a loop of get_best_match returns, found being the positions
\* its condition holds at; None when it returns nothing
first_result(rs, found) ==
    IF found = {} THEN None
    ELSE rs[CHOOSE i \in found : \A j \in found : i <= j]

\* a variant of get_best_match that answers a system keyword with get_system_info
\* whether or not it was retrieved
get_best_match_system_default(rs, q) ==
    LET exact == first_result(rs, {i \in DOMAIN rs : exact_example_match(rs[i].examples, q)})
        partial == first_result(rs, {i \in DOMAIN rs : partial_example_match(rs[i].examples, q)})
        d == InitialRegistry.metadata["get_system_info"]
    IN  IF rs = <<>> THEN None
        ELSE IF exact # None THEN exact
        ELSE IF partial # None THEN partial
        ELSE IF any_word_in(SYSTEM_KEYWORDS, q)
            THEN [name |-> d.name, relevance_score |-> ONE,
                  category |-> d.category, examples |-> d.examples]
        ELSE rs[1]

\* a variant of get_best_match that returns None when no rule selects a result
get_best_match_no_fallback(rs, q) ==
    LET exact == first_result(rs, {i \in DOMAIN rs : exact_example_match(rs[i].examples, q)})
        partial == first_result(rs, {i \in DOMAIN rs : partial_example_match(rs[i].examples, q)})
        system == IF any_word_in(SYSTEM_KEYWORDS, q)
                    THEN first_result(rs, {i \in DOMAIN rs : rs[i].name = "get_system_info"})
                    ELSE None
        application == IF any_word_in(APPLICATION_KEYWORDS, q)
                    THEN first_result(rs, {i \in DOMAIN rs : rs[i].category = "Application Control"})
                    ELSE None
    IN  IF rs = <<>> THEN None
        ELSE IF exact # None THEN exact
        ELSE IF partial # None THEN partial
        ELSE IF system # None THEN system
        ELSE application

\* a variant of get_best_match that tries the keyword rules before the partial
\* matches
get_best_match_keywords_first(rs, q) ==
    LET exact == first_result(rs, {i \in DOMAIN rs : exact_example_match(rs[i].examples, q)})
        partial == first_result(rs, {i \in DOMAIN rs : partial_example_match(rs[i].examples, q)})
        system == IF any_word_in(SYSTEM_KEYWORDS, q)
                    THEN first_result(rs, {i \in DOMAIN rs : rs[i].name = "get_system_info"})
                    ELSE None
        application == IF any_word_in(APPLICATION_KEYWORDS, q)
                    THEN first_result(rs, {i \in DOMAIN rs : rs[i].category = "Application Control"})
                    ELSE None
    IN  IF rs = <<>> THEN None
        ELSE IF exact # None THEN exact
        ELSE IF system # None THEN system
        ELSE IF application # None THEN application
        ELSE IF partial # None THEN partial
        ELSE rs[1]

\* a variant of get_best_match that tries the application keywords before the
\* system keywords
get_best_match_application_first(rs, q) ==
    LET exact == first_result(rs, {i \in DOMAIN rs : exact_example_match(rs[i].examples, q)})
        partial == first_result(rs, {i \in DOMAIN rs : partial_example_match(rs[i].examples, q)})
        system == IF any_word_in(SYSTEM_KEYWORDS, q)
                    THEN first_result(rs, {i \in DOMAIN rs : rs[i].name = "get_system_info"})
                    ELSE None
        application == IF any_word_in(APPLICATION_KEYWORDS, q)
                    THEN first_result(rs, {i \in DOMAIN rs : rs[i].category = "Application Control"})
                    ELSE None
    IN  IF rs = <<>> THEN None
        ELSE IF exact # None THEN exact
        ELSE IF partial # None THEN partial
        ELSE IF application # None THEN application
        ELSE IF system # None THEN system
        ELSE rs[1]

\* a variant of get_best_match in which the application keywords are an elif of
\* the system keywords
get_best_match_keyword_elif(rs, q) ==
    LET exact == first_result(rs, {i \in DOMAIN rs : exact_example_match(rs[i].examples, q)})
        partial == first_result(rs, {i \in DOMAIN rs : partial_example_match(rs[i].examples, q)})
        system == IF any_word_in(SYSTEM_KEYWORDS, q)
                    THEN first_result(rs, {i \in DOMAIN rs : rs[i].name = "get_system_info"})
                    ELSE None
        application == IF ~any_word_in(SYSTEM_KEYWORDS, q)
                            /\ any_word_in(APPLICATION_KEYWORDS, q)
                    THEN first_result(rs, {i \in DOMAIN rs : rs[i].category = "Application Control"})
                    ELSE None
    IN  IF rs = <<>> THEN None
        ELSE IF exact # None THEN exact
        ELSE IF partial # None THEN partial
        ELSE IF system # None THEN system
        ELSE IF application # None THEN application
        ELSE rs[1]

\* a variant of get_best_match whose last resort is results[-1]
get_best_match_last_result(rs, q) ==
    LET exact == first_result(rs, {i \in DOMAIN rs : exact_example_match(rs[i].examples, q)})
        partial == first_result(rs, {i \in DOMAIN rs : partial_example_match(rs[i].examples, q)})
        system == IF any_word_in(SYSTEM_KEYWORDS, q)
                    THEN first_result(rs, {i \in DOMAIN rs : rs[i].name = "get_system_info"})
                    ELSE None
        application == IF any_word_in(APPLICATION_KEYWORDS, q)
                    THEN first_result(rs, {i \in DOMAIN rs : rs[i].category = "Application Control"})
                    ELSE None
    IN  IF rs = <<>> THEN None
        ELSE IF exact # None THEN exact
        ELSE IF partial # None THEN partial
        ELSE IF system # None THEN system
        ELSE IF application # None THEN application
        ELSE rs[Len(rs)]

\* RAGService.get_best_match, given what retrieve_functions returned
get_best_match(rs, q) ==
    LET exact == first_result(rs, {i \in DOMAIN rs : exact_example_match(rs[i].examples, q)})
        partial == first_result(rs, {i \in DOMAIN rs : partial_example_match(rs[i].examples, q)})
        system == IF any_word_in(SYSTEM_KEYWORDS, q)
                    THEN first_result(rs, {i \in DOMAIN rs : rs[i].name = "get_system_info"})
                    ELSE None
        application == IF any_word_in(APPLICATION_KEYWORDS, q)
                    THEN first_result(rs, {i \in DOMAIN rs : rs[i].category = "Application Control"})
                    ELSE None
    IN  IF rs = <<>> THEN None
        ELSE IF exact # None THEN exact
        ELSE IF partial # None THEN partial
        ELSE IF system # None THEN system
        ELSE IF application # None THEN application
        ELSE rs[1]

----------------------------------------------------------------------------
(* Execution *)

\* the JSON text a call returns, by its top-level keys
ErrorEnvelope == [keys |-> {"error"}]
ValueEnvelope == [keys |-> {"value"}]
InfoObject == [keys |-> {"info"}]

\* a variant of execute that calls the function whatever parameters it declares
execute_without_parameter_check(fns, md, function_name, outcome) ==
    IF function_name \notin fns
        THEN [raised |-> TRUE, invoked |-> FALSE, result |-> ErrorEnvelope]
    ELSE [raised |-> FALSE, invoked |-> TRUE,
          result |-> IF outcome # "ok" THEN ErrorEnvelope
                     ELSE IF md[function_name].category
                                \in {"System Monitoring", "Time and Date"}
                         THEN InfoObject
                     ELSE ValueEnvelope]

\* a variant of execute that lets the exception of the function through
execute_raising(fns, md, function_name, outcome) ==
    IF function_name \notin fns
        THEN [raised |-> TRUE, invoked |-> FALSE, result |-> ErrorEnvelope]
    ELSE IF md[function_name].category # "System Monitoring"
            /\ md[function_name].parameters # <<>>
        THEN [raised |-> FALSE, invoked |-> FALSE, result |-> ErrorEnvelope]
    ELSE [raised |-> outcome # "ok", invoked |-> TRUE,
          result |-> IF outcome # "ok" THEN ErrorEnvelope
                     ELSE IF md[function_name].category
                                \in {"System Monitoring", "Time and Date"}
                         THEN InfoObject
                     ELSE ValueEnvelope]

\* FunctionRegistry.execute(function_name) with no keyword arguments.  outcome
\* says whether the callable, when run, succeeds ("ok") or fails ("fail"): a
\* System Monitoring callable catches its own failure and returns an error
\* envelope, any other raises and execute turns that into an error envelope.
execute(fns, md, function_name, outcome) ==
    IF function_name \notin fns
        THEN [raised |-> TRUE, invoked |-> FALSE, result |-> ErrorEnvelope]
    ELSE IF md[function_name].category = "System Monitoring"
        THEN [raised |-> FALSE, invoked |-> TRUE,
              result |-> IF outcome = "ok" THEN InfoObject ELSE ErrorEnvelope]
    ELSE IF md[function_name].parameters # <<>>
        THEN [raised |-> FALSE, invoked |-> FALSE, result |-> ErrorEnvelope]
    ELSE [raised |-> FALSE, invoked |-> TRUE,
          result |-> IF outcome # "ok" THEN ErrorEnvelope
                     ELSE IF md[function_name].category = "Time and Date" THEN InfoObject
                     ELSE ValueEnvelope]

\* a variant of _update_vector_store that deletes the collection first, as
\* _initialize_vector_store does, and then fails
update_vector_store_delete_first(coll, md) ==
    [collection |-> <<>>, raised |-> "AttributeError"]

\* FunctionRegistry._update_vector_store: FunctionRegistry has no attribute
\* `collection` (only RAGService has one), so self.collection.add raises and the
\* chroma collection is left as it was
update_vector_store(coll, md) == [collection |-> coll, raised |-> "AttributeError"]

\* a variant of register_custom_function without the check of the name
register_custom_function_overwriting(fns, md, coll, d) ==
    [functions |-> register_function(fns, md, d).functions,
     metadata |-> register_function(fns, md, d).metadata,
     collection |-> coll,
     raised |-> update_vector_store(coll, register_function(fns, md, d).metadata).raised]

\* FunctionRegistry.register_custom_function
register_custom_function(fns, md, coll, d) ==
    IF d.name \in fns
        THEN [functions |-> fns, metadata |-> md, collection |-> coll,
              raised |-> "ValueError"]
    ELSE LET r == register_function(fns, md, d)
             u == update_vector_store(coll, r.metadata)
         IN  [functions |-> r.functions, metadata |-> r.metadata,
              collection |-> u.collection, raised |-> u.raised]

----------------------------------------------------------------------------
(* Parameters *)

\* the texts of the model's extract_parameters calls and their characters
ParameterChars ==
    ("delete file_path /tmp/a.txt" :> <<"d", "e", "l", "e", "t", "e", " ", "f", "i", "l", "e", "_", "p", "a", "t", "h", " ", "/", "t", "m", "p", "/", "a", ".", "t", "x", "t">>)
  @@ ("delete FILE_PATH /tmp/a.txt" :> <<"d", "e", "l", "e", "t", "e", " ", "F", "I", "L", "E", "_", "P", "A", "T", "H", " ", "/", "t", "m", "p", "/", "a", ".", "t", "x", "t">>)
  @@ ("delete file_path" :> <<"d", "e", "l", "e", "t", "e", " ", "f", "i", "l", "e", "_", "p", "a", "t", "h">>)
  @@ ("Delete the file" :> <<"D", "e", "l", "e", "t", "e", " ", "t", "h", "e", " ", "f", "i", "l", "e">>)
  @@ ("file_path" :> <<"f", "i", "l", "e", "_", "p", "a", "t", "h">>)
  @@ ("/tmp/a.txt" :> <<"/", "t", "m", "p", "/", "a", ".", "t", "x", "t">>)

ParameterPrompts ==
    {"delete file_path /tmp/a.txt", "delete FILE_PATH /tmp/a.txt",
     "delete file_path", "Delete the file"}

\* the text that has the given characters
ParameterText(cs) == CHOOSE t \in DOMAIN ParameterChars : ParameterChars[t] = cs

\* str.find, counted from 1: the first position of needle in hay, 0 for none
find(needle, hay) ==
    IF ~is_in(needle, hay) THEN 0
    ELSE CHOOSE i \in 1..(Len(hay) - Len(needle) + 1) :
            /\ SubSeq(hay, i, i + Len(needle) - 1) = needle
            /\ \A j \in 1..(i - 1) : SubSeq(hay, j, j + Len(needle) - 1) # needle

\* str.split(sep): the pieces between the occurrences of sep, left to right
RECURSIVE split(_, _)
split(cs, sep) ==
    IF find(sep, cs) = 0 THEN <<cs>>
    ELSE <<SubSeq(cs, 1, find(sep, cs) - 1)>>
         \o split(SubSeq(cs, find(sep, cs) + Len(sep), Len(cs)), sep)

\* str.split(): the words between runs of blanks
RECURSIVE split_whitespace(_)
split_whitespace(cs) ==
    IF cs = <<>> THEN <<>>
    ELSE IF Head(cs) = " " THEN split_whitespace(Tail(cs))
    ELSE IF find(<<" ">>, cs) = 0 THEN <<cs>>
    ELSE <<SubSeq(cs, 1, find(<<" ">>, cs) - 1)>>
         \o split_whitespace(SubSeq(cs, find(<<" ">>, cs), Len(cs)))

\* RAGService.extract_parameters: a parameter whose name occurs in the
\* lower-cased query gets the word that follows the name in the query as it
\* was typed; an IndexError of either subscript is swallowed
extract_parameters(query_text, function_metadata) ==
    LET names == {function_metadata.parameters[i] :
                    i \in DOMAIN function_metadata.parameters}
        pieces(p) == split(ParameterChars[query_text], ParameterChars[p])
        valued(p) ==
            /\ is_in(ParameterChars[p], lower_chars(ParameterChars[query_text]))
            /\ Len(pieces(p)) >= 2
            /\ split_whitespace(pieces(p)[2]) # <<>>
    IN  [p \in {n \in names : valued(n)} |->
            ParameterText(split_whitespace(pieces(p)[2])[1])]

----------------------------------------------------------------------------
(* Inputs *)

\* arguments of direct add_to_history calls
HistoryInputs ==
    {[prompt |-> "Open calculator", function |-> "open_calculator", result |-> ValueEnvelope],
     [prompt |-> "what time is it", function |-> "get_current_time", result |-> InfoObject]}

\* what the model keeps of a result dictionary
Summary(r) ==
    IF r = None THEN None ELSE [name |-> r.name, relevance_score |-> r.relevance_score]

NoResponse == [status_code |-> 0, function |-> "", status |-> ""]

InteractionRecord(prompt, function_name, result, timestamp) ==
    [prompt |-> prompt, function |-> function_name, result |-> result,
     timestamp |-> timestamp]

----------------------------------------------------------------------------
(* State machine *)

Init ==
    /\ functions = InitialRegistry.functions
    /\ metadata = InitialRegistry.metadata
    /\ collection = InitialCollection
    /\ session_history = <<>>
    /\ appended = <<>>
    /\ clock = 0
    /\ op = "init"
    /\ query = ""
    /\ context = <<>>
    /\ hits = <<>>
    /\ results = <<>>
    /\ match = None
    /\ invoked = FALSE
    /\ error = ""
    /\ response = NoResponse
    /\ returned = None

\* a variant of the outer except that answers with the no-match status
NotFoundError == [status_code |-> 404, function |-> "", status |-> ""]

\* any exception raised inside the outer try of execute_function, an
\* HTTPException included, is caught by `except Exception` and re-raised as 500
InternalError == [status_code |-> 500, function |-> "", status |-> ""]

\* POST /execute: routes.execute_function.  The handler has no await: it runs to
\* completion before another request is served.
ExecuteFunction ==
    /\ clock < MaxRequests
    /\ UNCHANGED returned
    /\ clock' = clock + 1
    /\ \E prompt \in Prompts, index_ok \in BOOLEAN, outcome \in {"ok", "fail"} :
        LET ctx == get_relevant_history(session_history, prompt)
        IN  /\ op' = "execute"
            /\ query' = prompt
            /\ context' = ctx
            /\ UNCHANGED <<functions, metadata, collection>>
            /\ IF ~index_ok
                 THEN \* collection.query raises: retrieve_functions re-raises
                      /\ hits' = <<>>
                      /\ results' = <<>>
                      /\ match' = None
                      /\ invoked' = FALSE
                      /\ error' = "QueryError"
                      /\ response' = InternalError
                      /\ UNCHANGED <<session_history, appended>>
                 ELSE \E answer \in collection_query(collection, ctx, N_RESULTS) :
                      \E rs \in {retrieve_functions(metadata, prompt, answer)} :
                      \E function_match \in {get_best_match(rs, prompt)} :
                      LET ex == execute(functions, metadata, function_match.name, outcome)
                          rec == InteractionRecord(prompt, function_match.name, ex.result,
                                                   clock + 1)
                      IN  /\ hits' = answer
                          /\ results' = [i \in 1..Len(rs) |-> Summary(rs[i])]
                          /\ match' = Summary(function_match)
                          /\ IF function_match = None
                               THEN \* raise HTTPException(404), inside the outer try
                                    /\ invoked' = FALSE
                                    /\ error' = "HTTPException(404)"
                                    /\ response' = InternalError
                                    /\ UNCHANGED <<session_history, appended>>
                             ELSE IF ex.raised
                               THEN \* inner except: an error response, no history
                                    /\ invoked' = ex.invoked
                                    /\ error' = "KeyError"
                                    /\ response' = [status_code |-> 200,
                                                    function |-> function_match.name,
                                                    status |-> "error"]
                                    /\ UNCHANGED <<session_history, appended>>
                             ELSE   /\ invoked' = ex.invoked
                                    /\ error' = ""
                                    /\ session_history' = add_to_history(session_history, rec)
                                    /\ appended' = Append(appended, rec)
                                    /\ response' =
                                         [status_code |-> 200,
                                          function |-> function_match.name,
                                          status |-> IF "error" \in ex.result.keys
                                                       THEN "error" ELSE "success"]

\* POST /register-function: routes.register_function.  loads says whether the
\* posted code executes and defines a callable of the posted name.
RegisterFunction ==
    \E d \in CustomFunctions, loads \in BOOLEAN :
        LET r == register_custom_function(functions, metadata, collection, d)
        IN  /\ op' = "register"
            /\ query' = d.name
            /\ context' = <<>>
            /\ hits' = <<>>
            /\ results' = <<>>
            /\ match' = None
            /\ invoked' = FALSE
            /\ UNCHANGED <<session_history, appended, clock, returned>>
            /\ IF ~loads
                 THEN \* exec_module or getattr raises, or the attribute is no callable
                      /\ error' = "LoadError"
                      /\ response' = [status_code |-> 400, function |-> d.name, status |-> ""]
                      /\ UNCHANGED <<functions, metadata, collection>>
                 ELSE /\ functions' = r.functions
                      /\ metadata' = r.metadata
                      /\ collection' = r.collection
                      /\ error' = r.raised
                      /\ response' = [status_code |-> IF r.raised # "" THEN 400 ELSE 200,
                                      function |-> d.name, status |-> ""]

\* a direct call of RAGService.add_to_history
AddToHistory ==
    /\ clock < MaxAppends
    /\ clock' = clock + 1
    /\ \E a \in HistoryInputs :
        LET rec == InteractionRecord(a.prompt, a.function, a.result, clock + 1)
        IN  /\ session_history' = add_to_history(session_history, rec)
            /\ appended' = Append(appended, rec)
            /\ op' = "add_to_history"
            /\ query' = a.prompt
            /\ context' = <<>>
            /\ UNCHANGED <<functions, metadata, collection, hits, results, match,
                           invoked, error, response, returned>>

\* a variant of the call that consumes the interactions it reads
GetRelevantHistory_consuming ==
    \E prompt \in Prompts :
        /\ op' = "get_relevant_history"
        /\ query' = prompt
        /\ context' = get_relevant_history(session_history, prompt)
        /\ session_history' = <<>>
        /\ UNCHANGED <<functions, metadata, collection, appended,
                       clock, hits, results, match, invoked, error, response,
                       returned>>

\* a direct call of RAGService.get_relevant_history
GetRelevantHistory ==
    \E prompt \in Prompts :
        /\ op' = "get_relevant_history"
        /\ query' = prompt
        /\ context' = get_relevant_history(session_history, prompt)
        /\ UNCHANGED <<functions, metadata, collection, session_history, appended,
                       clock, hits, results, match, invoked, error, response,
                       returned>>

\* RAGService() built over a registry that holds the built-in functions and,
\* possibly, functions registered before by direct register_function calls
InitSelect ==
    \E extras \in {<<>>, ExtraFunctions} :
        LET r == register_all(InitialRegistry.functions, InitialRegistry.metadata, extras)
        IN  /\ functions = r.functions
            /\ metadata = r.metadata
            /\ collection = initialize_vector_store(BuiltinFunctions \o extras)
            /\ session_history = <<>>
            /\ appended = <<>>
            /\ clock = 0
            /\ op = "init"
            /\ query = ""
            /\ context = <<>>
            /\ hits = <<>>
            /\ results = <<>>
            /\ match = None
            /\ invoked = FALSE
            /\ error = ""
            /\ response = NoResponse
            /\ returned = None

\* a direct call of RAGService.get_best_match.  The call changes nothing of the
\* registry, the index or the history, so every call of a behaviour is made
\* from the state the first one is made from.
GetBestMatch ==
    /\ op = "init"
    /\ \E prompt \in SelectPrompts :
        LET ctx == get_relevant_history(session_history, prompt)
        IN  \E answer \in select_query(collection, ctx, N_RESULTS) :
            \E rs \in {retrieve_functions(metadata, prompt, answer)} :
            \E function_match \in {get_best_match(rs, prompt)} :
                /\ op' = "get_best_match"
                /\ query' = prompt
                /\ context' = ctx
                /\ hits' = answer
                /\ results' = [i \in 1..Len(rs) |-> Summary(rs[i])]
                /\ match' = Summary(function_match)
                /\ UNCHANGED <<functions, metadata, collection, session_history,
                               appended, clock, invoked, error, response, returned>>

Next == ExecuteFunction \/ RegisterFunction

Spec == Init /\ [][Next]_vars

NextHistory == AddToHistory \/ GetRelevantHistory

SpecHistory == Init /\ [][NextHistory]_vars

NextSelect == GetBestMatch

\* get_best_match over the index of the built-in functions
SpecResolve == Init /\ [][NextSelect]_vars

\* get_best_match over an index that may hold ExtraFunctions as well
SpecSelect == InitSelect /\ [][NextSelect]_vars

\* In SpecCalls the calls that write the history or the registry come first
\* and one other call follows them: the variables that hold what a call
\* returned are those of that call.
WritesOnly == op \in {"init", "add_to_history", "register"}

\* a direct call of RAGService.add_to_history, MaxCalls of them in a behaviour
AddToHistoryCall ==
    /\ WritesOnly
    /\ Len(appended) < MaxCalls
    /\ AddToHistory

\* a POST /register
RegisterFunctionCall ==
    /\ WritesOnly
    /\ RegisterFunction

\* a direct call of RAGService.get_relevant_history
GetRelevantHistoryCall ==
    /\ WritesOnly
    /\ GetRelevantHistory

\* a direct call of RAGService.get_best_match
GetBestMatchCall ==
    /\ WritesOnly
    /\ \E prompt \in Prompts :
        LET ctx == get_relevant_history(session_history, prompt)
        IN  \E answer \in collection_query(collection, ctx, N_RESULTS) :
            \E rs \in {retrieve_functions(metadata, prompt, answer)} :
            \E function_match \in {get_best_match(rs, prompt)} :
                /\ op' = "get_best_match"
                /\ query' = prompt
                /\ context' = ctx
                /\ hits' = answer
                /\ results' = [i \in 1..Len(rs) |-> Summary(rs[i])]
                /\ match' = Summary(function_match)
                /\ UNCHANGED <<functions, metadata, collection, session_history,
                               appended, clock, invoked, error, response, returned>>

\* a direct call of RAGService.extract_parameters with the descriptor of a
\* registered function
ExtractParameters ==
    /\ WritesOnly
    /\ \E prompt \in ParameterPrompts, function_name \in functions :
        /\ op' = "extract_parameters"
        /\ query' = prompt
        /\ returned' = extract_parameters(prompt, metadata[function_name])
        /\ UNCHANGED <<functions, metadata, collection, session_history, appended,
                       clock, context, hits, results, match, invoked, error,
                       response>>

\* a direct call of FunctionRegistry.execute without keyword arguments
Execute ==
    /\ WritesOnly
    /\ \E function_name \in functions \cup {"unknown_function"},
          outcome \in {"ok", "fail"} :
        \E r \in {execute(functions, metadata, function_name, outcome)} :
            /\ op' = "registry_execute"
            /\ query' = function_name
            /\ invoked' = r.invoked
            /\ error' = IF r.raised THEN "KeyError" ELSE ""
            /\ returned' = IF r.raised THEN None ELSE r.result
            /\ UNCHANGED <<functions, metadata, collection, session_history, appended,
                           clock, context, hits, results, match, response>>

NextCalls ==
    \/ AddToHistoryCall
    \/ RegisterFunctionCall
    \/ GetRelevantHistoryCall
    \/ GetBestMatchCall
    \/ ExtractParameters
    \/ Execute

SpecCalls == Init /\ [][NextCalls]_vars

----------------------------------------------------------------------------
(* Properties *)

BuiltinNames == {BuiltinFunctions[i].name : i \in DOMAIN BuiltinFunctions}

\* get_best_match returned (collection.query did not raise)
Resolved == op = "execute" /\ error # "QueryError"

\* prompt q is, character for character, one of d's example phrases
IsExampleOf(q, d) == \E i \in DOMAIN d.examples : d.examples[i] = q

\* rule 5 of the scorer applies to descriptor d for prompt q
CategoryRuleApplies(d, q) ==
    \/ d.category = "System Monitoring" /\ any_word_in(SYSTEM_KEYWORDS, q)
    \/ d.category = "Application Control" /\ any_word_in(APPLICATION_KEYWORDS, q)

\* no rule of the scorer or of the selection applies to any registered function
NoRuleApplies(q) ==
    /\ ~any_word_in(SYSTEM_KEYWORDS, q)
    /\ ~any_word_in(APPLICATION_KEYWORDS, q)
    /\ \A f \in functions :
        /\ ~exact_example_match(metadata[f].examples, q)
        /\ ~partial_example_match(metadata[f].examples, q)
        /\ ~name_match(f, q)
        /\ ~description_match(metadata[f].description, q)

\* the distance the index gave the i-th result
DistanceOf(i) ==
    hits[CHOOSE k \in DOMAIN hits : hits[k].id = results[i].name].distance

\* C1: a resolve whose prompt is an example phrase of a registered descriptor
\* returns that descriptor's function, not another one and not None.
C1_ExamplePhraseResolvesToItsFunction ==
    Resolved =>
        \A f \in functions :
            IsExampleOf(query, metadata[f]) => match # None /\ match.name = f

C3_MatchIsAmongTheHits ==
    Resolved =>
        /\ Len(hits) <= 5
        /\ match # None => \E k \in DOMAIN hits : hits[k].id = match.name

\* a keyword query whose preferred function was not retrieved: another is returned
C3_Witness ==
    /\ Resolved
    /\ query = "delete a file from the system"
    /\ \A k \in DOMAIN hits : hits[k].id # "get_system_info"
    /\ match # None

\* C4: the history holds the last min(n, 10) of the n records appended so far, in
\* append order, and never more than 10.
C4_HistoryIsTheLastTenAppended ==
    LET n == Len(appended)
        k == IF n < 10 THEN n ELSE 10
    IN  /\ Len(session_history) = k
        /\ \A i \in 1..k : session_history[i] = appended[n - k + i]

\* 11 records appended: the first is gone, the 2nd to 11th remain in order
C4_Witness ==
    /\ Len(appended) = 11
    /\ Len(session_history) = 10
    /\ session_history[1] = appended[2]
    /\ session_history[10] = appended[11]

\* C5: with an empty history, get_relevant_history returns the prompt unchanged.
C5_EmptyHistoryContextIsThePrompt ==
    (op = "get_relevant_history" /\ session_history = <<>>) => context = Chars(query)

\* the rendering of one record in the context
C6_Line(r) ==
    Chars("Previous interaction: ") \o Chars(r.prompt) \o Chars(" -> ") \o Chars(r.function)

\* C6: with h >= 1 records, the context is the header, the last min(h, 3) records
\* (prompt and function), oldest of them first, and then the current prompt.
C6_ContextIsTheLastThreeThenThePrompt ==
    (op = "get_relevant_history" /\ session_history # <<>>) =>
        LET h == Len(session_history)
            lines == IF h = 1 THEN C6_Line(session_history[1])
                     ELSE IF h = 2
                        THEN C6_Line(session_history[1]) \o Chars("\n")
                                \o C6_Line(session_history[2])
                     ELSE C6_Line(session_history[h - 2]) \o Chars("\n")
                            \o C6_Line(session_history[h - 1]) \o Chars("\n")
                            \o C6_Line(session_history[h])
        IN  context = Chars("Previous interactions:\n") \o lines
                        \o Chars("\n\nCurrent prompt: ") \o Chars(query)

\* a context rendered from a history that holds records older than the last three
C6_Witness ==
    /\ op = "get_relevant_history"
    /\ Len(session_history) >= 5
    /\ session_history[Len(session_history) - 3].prompt
           # session_history[Len(session_history) - 2].prompt
    /\ context # <<>>

\* C7: once a custom function is registered, a resolve of one of its example
\* phrases returns it.
C7_RegisteredFunctionResolves ==
    \A f \in functions \ BuiltinNames :
        (Resolved /\ IsExampleOf(query, metadata[f])) => match.name = f

\* C8: a request whose prompt matches no registered function, or for which
\* get_best_match returns None, is answered with status 404 and runs no function.
C8_NoMatchIsAnswered404 ==
    (Resolved /\ (match = None \/ NoRuleApplies(query)))
        => response.status_code = 404 /\ ~invoked

C10_BoostsAreCumulative ==
    Resolved =>
        \A i \in DOMAIN results :
            LET d == metadata[results[i].name]
            IN  ~exact_example_match(d.examples, query) =>
                    results[i].relevance_score =
                        (100 - DistanceOf(i))
                        + (IF partial_example_match(d.examples, query) THEN 30 ELSE 0)
                        + (IF name_match(d.name, query) THEN 20 ELSE 0)
                        + (IF description_match(d.description, query) THEN 10 ELSE 0)
                        + (IF CategoryRuleApplies(d, query) THEN 50 ELSE 0)

\* C10 (amended): without an exact match, the score is the base similarity plus
\* the boost of the first of rules 2, 3, 4 that applies (0.3, 0.2, 0.1), plus 0.5
\* when the category rule applies.
C10_FirstExampleRulePlusCategoryBoost ==
    Resolved =>
        \A i \in DOMAIN results :
            LET d == metadata[results[i].name]
            IN  ~exact_example_match(d.examples, query) =>
                    results[i].relevance_score =
                        (100 - DistanceOf(i))
                        + (IF partial_example_match(d.examples, query) THEN 30
                           ELSE IF name_match(d.name, query) THEN 20
                           ELSE IF description_match(d.description, query) THEN 10
                           ELSE 0)
                        + (IF CategoryRuleApplies(d, query) THEN 50 ELSE 0)

\* a result that matches rule 2 and rule 3 at once, and the category rule
C10_Witness ==
    /\ Resolved
    /\ \E i \in DOMAIN results :
        LET d == metadata[results[i].name]
        IN  /\ ~exact_example_match(d.examples, query)
            /\ partial_example_match(d.examples, query)
            /\ name_match(d.name, query)
            /\ CategoryRuleApplies(d, query)
            /\ results[i].relevance_score = (100 - DistanceOf(i)) + 80

\* a direct get_best_match call returned
Selected == op = "get_best_match"

\* the i-th result has an example equal to the query, ignoring case
IsExact(i) == exact_example_match(metadata[results[i].name].examples, query)

\* C11: in one resolve call no candidate scores higher than a candidate with an
\* exact example match.
C11_ExactMatchScoreIsHighest ==
    Selected =>
        \A i, j \in DOMAIN results :
            IsExact(i) => results[j].relevance_score <= results[i].relevance_score

\* position of a retrieved function in the answer of the index
HitIndex(name) == CHOOSE k \in DOMAIN hits : hits[k].id = name

\* its adjusted score
ScoreOf(name) == results[CHOOSE i \in DOMAIN results : results[i].name = name].relevance_score

\* a precedes b in adjusted-score order, retrieval order deciding equal scores
Precedes(a, b) ==
    \/ ScoreOf(a) > ScoreOf(b)
    \/ ScoreOf(a) = ScoreOf(b) /\ HitIndex(a) < HitIndex(b)

\* the retrieved functions with an exact, and with a partial, example match
ExactHits == {hits[k].id : k \in {j \in DOMAIN hits : exact_example_match(metadata[hits[j].id].examples, query)}}
PartialHits == {hits[k].id : k \in {j \in DOMAIN hits : partial_example_match(metadata[hits[j].id].examples, query)}}

\* the one of a non-empty set of retrieved functions that was retrieved first
FirstRetrieved(names) == CHOOSE a \in names : \A b \in names : HitIndex(a) <= HitIndex(b)

C13_FirstRetrievedPartialMatchIsReturned ==
    (Selected /\ ExactHits = {} /\ PartialHits # {}) =>
        match.name = FirstRetrieved(PartialHits)

\* C13 (amended): with no exact match and some partial match, the partial-match
\* candidate with the highest adjusted score is returned, and of equal scores
\* the one retrieved first.
C13_BestScoredPartialMatchIsReturned ==
    (Selected /\ ExactHits = {} /\ PartialHits # {}) =>
        /\ match.name \in PartialHits
        /\ \A e \in PartialHits \ {match.name} : Precedes(match.name, e)

\* two partial matches, the one returned retrieved after the other, with
\* get_system_info retrieved as well and a system keyword in the query
C13_Witness ==
    /\ Selected
    /\ ExactHits = {}
    /\ Cardinality(PartialHits) >= 2
    /\ match.name \in PartialHits
    /\ match.name # FirstRetrieved(PartialHits)
    /\ any_word_in(SYSTEM_KEYWORDS, query)
    /\ \E k \in DOMAIN hits : hits[k].id = "get_system_info"

\* get_system_info is among the retrieved candidates
SystemInfoRetrieved == \E k \in DOMAIN hits : hits[k].id = "get_system_info"

\* the retrieved functions of category "Application Control"
ApplicationHits == {hits[k].id : k \in {j \in DOMAIN hits : metadata[hits[j].id].category = "Application Control"}}

\* C14: with no exact or partial match, a system keyword in the query and
\* get_system_info retrieved, get_system_info is returned.
C14_SystemKeywordPrefersSystemInfo ==
    (Selected /\ ExactHits = {} /\ PartialHits = {}
        /\ any_word_in(SYSTEM_KEYWORDS, query) /\ SystemInfoRetrieved)
        => match.name = "get_system_info"

\* get_system_info is returned although another candidate scores higher and the
\* query holds an application keyword too
C14_Witness ==
    /\ Selected
    /\ ExactHits = {} /\ PartialHits = {}
    /\ any_word_in(SYSTEM_KEYWORDS, query)
    /\ any_word_in(APPLICATION_KEYWORDS, query)
    /\ match.name = "get_system_info"
    /\ \E i \in DOMAIN results : results[i].relevance_score > match.relevance_score

\* C15: when rules 5a to 5c select nothing, the query holds an application
\* keyword and a candidate of category "Application Control" was retrieved, a
\* candidate of that category is returned.
C15_ApplicationKeywordPrefersApplicationControl ==
    (Selected /\ ExactHits = {} /\ PartialHits = {}
        /\ ~(any_word_in(SYSTEM_KEYWORDS, query) /\ SystemInfoRetrieved)
        /\ any_word_in(APPLICATION_KEYWORDS, query) /\ ApplicationHits # {})
        => match.name \in ApplicationHits

\* a system keyword without get_system_info retrieved: an Application Control
\* candidate is returned although another candidate scores higher
C15_Witness ==
    /\ Selected
    /\ ExactHits = {} /\ PartialHits = {}
    /\ any_word_in(SYSTEM_KEYWORDS, query)
    /\ ~SystemInfoRetrieved
    /\ any_word_in(APPLICATION_KEYWORDS, query)
    /\ match.name \in ApplicationHits
    /\ \E i \in DOMAIN results : results[i].relevance_score > match.relevance_score

\* none of the selection rules 5a to 5d finds a candidate
NoSelectionRule ==
    /\ ExactHits = {}
    /\ PartialHits = {}
    /\ ~(any_word_in(SYSTEM_KEYWORDS, query) /\ SystemInfoRetrieved)
    /\ ~(any_word_in(APPLICATION_KEYWORDS, query) /\ ApplicationHits # {})

\* no scoring rule applies to any retrieved candidate
NoScoringRule ==
    \A k \in DOMAIN hits :
        LET d == metadata[hits[k].id]
        IN  /\ ~exact_example_match(d.examples, query)
            /\ ~partial_example_match(d.examples, query)
            /\ ~name_match(d.name, query)
            /\ ~description_match(d.description, query)
            /\ ~CategoryRuleApplies(d, query)

IndexIds == {collection[i].id : i \in DOMAIN collection}

C18_Context(w, q) ==
    Chars("Previous interactions:\n")
        \o join_lines([i \in 1..Len(w) |-> C6_Line(w[i])])
        \o Chars("\n\nCurrent prompt: ") \o Chars(q)

\* C18: appends and context reads of concurrent requests act on whole
\* histories: every record appended is held until it is one of more than 10
\* behind the newest, never more than 10 records are held, and a context read
\* renders the last three records of the history some number k of completed
\* appends produced.
C18_AppendsAndReadsAreSerialized ==
    /\ Len(session_history) <= 10
    /\ \A i \in DOMAIN appended :
        i > Len(appended) - 10 =>
            \E j \in DOMAIN session_history : session_history[j] = appended[i]
    /\ (op = "get_relevant_history" /\ context # <<>>) =>
        \E k \in DOMAIN appended :
            context = C18_Context(SubSeq(appended, Max(1, k - 2), k), query)

\* a context read after the eleventh append: the history is full and has evicted
C18_Witness ==
    /\ op = "get_relevant_history"
    /\ Len(appended) = 11
    /\ Len(session_history) = 10
    /\ context # <<>>

\* two records of calls with the same prompt, function name and result
SameCall(a, b) == a.prompt = b.prompt /\ a.function = b.function /\ a.result = b.result

\* C19: an add_to_history call that repeats the call before it (same prompt,
\* function name and result) leaves the history with the records it had.
C19_RetryLeavesHistoryUnchanged ==
    [][(/\ op = "add_to_history"
        /\ op' = "add_to_history"
        /\ Len(appended') = Len(appended) + 1
        /\ SameCall(appended'[Len(appended')], appended[Len(appended)]))
            => /\ Len(session_history') = Len(session_history)
               /\ \A i \in DOMAIN session_history :
                    SameCall(session_history'[i], session_history[i])]_vars

ResolveCalls == {"get_best_match", "get_relevant_history"}

\* C21: the session history is changed by add_to_history only, which appends
\* one record; get_best_match, get_relevant_history, extract_parameters and a
\* registration leave it as it was, and get_best_match and
\* get_relevant_history also leave the registry and the index as they were.
C21_OnlyAppendChangesTheHistory ==
    [][/\ session_history' # session_history
            => /\ op' = "add_to_history"
               /\ appended' = Append(appended, appended'[Len(appended')])
               /\ session_history' =
                    add_to_history(session_history, appended'[Len(appended')])
       /\ op' \in ResolveCalls \cup {"extract_parameters", "register"}
            => /\ session_history' = session_history
               /\ appended' = appended
       /\ op' \in ResolveCalls
            => /\ functions' = functions
               /\ metadata' = metadata
               /\ collection' = collection]_vars

\* get_best_match called on a history of two records, after a registration
C21_Witness ==
    /\ op = "get_best_match"
    /\ Len(session_history) = 2
    /\ "say_hello" \in functions
    /\ match # None

\* C22: a POST /execute whose get_best_match returned a function appends one
\* record, with the prompt of the request and the name of that function,
\* whether the function ran well or not; a request whose get_best_match
\* returned nothing appends none.
C22_OneRecordPerResolvedRequest ==
    [][op' = "execute" =>
        IF match' # None
            THEN /\ Len(appended') = Len(appended) + 1
                 /\ appended' = Append(appended, appended'[Len(appended')])
                 /\ appended'[Len(appended')].prompt = query'
                 /\ appended'[Len(appended')].function = match'.name
                 /\ session_history' =
                        add_to_history(session_history, appended'[Len(appended')])
            ELSE /\ appended' = appended
                 /\ session_history' = session_history]_vars

\* a request whose function was called and failed, and its record
C22_Witness ==
    /\ op = "execute"
    /\ match # None
    /\ invoked
    /\ response.status = "error"
    /\ appended # <<>>
    /\ appended[Len(appended)].prompt = query
    /\ appended[Len(appended)].function = match.name
    /\ appended[Len(appended)].result = ErrorEnvelope

\* C23: a registration under a name that is already registered fails, and the
\* descriptor and the registry entry of that name and the index are as before.
C23_DuplicateNameIsRejected ==
    [][op' = "register" /\ query' \in functions =>
        /\ error' \in {"LoadError", "ValueError"}
        /\ response'.status_code = 400
        /\ functions' = functions
        /\ metadata' = metadata
        /\ collection' = collection]_vars

\* open_calculator posted again with another description: the name check
\* refused it and the built-in descriptor is still there
C23_Witness ==
    /\ op = "register"
    /\ query = "open_calculator"
    /\ error = "ValueError"
    /\ response.status_code = 400
    /\ metadata["open_calculator"].category = "Application Control"

\* C24: after any sequence of registrations and requests the index holds one
\* document for each registered function and no other: the ids of the
\* collection are the names of the registry.  (A descriptor is never changed
\* once it is registered, so a document of a registered name is the one
\* rendered from its descriptor.)
C24_IndexMatchesTheCatalog ==
    /\ IndexIds = functions
    /\ Len(collection) = Cardinality(functions)

\* C25: FunctionRegistry.execute raises KeyError for a name that is not
\* registered, and an exception of the function it called reaches the caller:
\* it is not returned as an error envelope.  (The functions of System
\* Monitoring catch their own exceptions and return the envelope themselves.)
C25_ExecuteRaisesToItsCaller ==
    op = "registry_execute" =>
        /\ query \notin functions => error = "KeyError" /\ ~invoked
        /\ (/\ query \in functions
            /\ invoked
            /\ metadata[query].category # "System Monitoring")
                => returned # ErrorEnvelope

\* C26: a registration that fails leaves the registry as it was before the
\* call: no name is registered without being indexed, and a name is refused
\* as already existing only if a registration of it succeeded or it is built in.
C26_FailedRegistrationChangesNothing ==
    [][op' = "register" /\ error' # "" =>
        /\ functions' = functions
        /\ metadata' = metadata
        /\ error' = "ValueError" => query' \in IndexIds]_vars

\* C27: a POST /execute that resolves to a function which declares parameters
\* and is not of System Monitoring does not call the function: execute returns
\* an error envelope, which is recorded, and the response status is "error".
C27_ParameterisedFunctionIsNotRun ==
    (/\ Resolved
     /\ match # None
     /\ metadata[match.name].parameters # <<>>
     /\ metadata[match.name].category # "System Monitoring")
        => /\ ~invoked
           /\ error = ""
           /\ response.status = "error"
           /\ appended[Len(appended)].result = ErrorEnvelope

\* a request resolved to delete_file
C27_Witness ==
    /\ Resolved
    /\ match.name = "delete_file"
    /\ ~invoked
    /\ response = [status_code |-> 200, function |-> "delete_file", status |-> "error"]

=============================================================================
